---- MODULE Spec2Model ----
(***************************************************************************)
(* Model of the document chunking subsystem                                *)
(* (src/packages/etl/processors/chunker.py), of the connector loop of the  *)
(* ETL pipeline (src/packages/etl/pipeline.py) and of the global database  *)
(* handle (src/packages/core/utils/db.py).                                 *)
(*                                                                         *)
(* A Python str is a sequence of one-character strings.  A dict is a       *)
(* function whose domain is its key set.  An Optional argument is None     *)
(* or Some(x).                                                             *)
(***************************************************************************)
EXTENDS Integers, Sequences, FiniteSets, TLC

VARIABLES settings, ctor, chunker, pc, call, caller_metadata, result,
          ncalls, frames, run, db, tasks

vars == <<settings, ctor, chunker, pc, call, caller_metadata, result,
          ncalls, frames, run, db, tasks>>

\* the state of the chunker and of its callers
chunking == <<settings, ctor, chunker, pc, call, caller_metadata, result,
              ncalls, frames>>

\* Optional[T]: None is the empty tuple, a present value x is <<x>>
None == <<>>

Some(x) == <<x>>

\* the dict literal {}
EmptyDict == [k \in {} |-> 0]

(***************************************************************************)
(* Bounds of the input domain.                                             *)
(***************************************************************************)
MaxPieces == 3
MaxMdPieces == 3
MaxCalls == 2

(***************************************************************************)
(* Program constants.                                                      *)
(***************************************************************************)
chunk_size_tokens == 500
chunk_overlap_tokens == 50
CharsPerToken == 4
MaxHeaderLevel == 6

(***************************************************************************)
(* Characters and Python string primitives.                                *)
(***************************************************************************)
NL == "\n"
SP == " "
HASH == "#"

\* \s of the re module and the characters str.strip() removes
IsSpace(c) == c \in {SP, NL, "\t", "\r"}

\* [.!?] of the sentence pattern
IsTerminator(c) == c \in {".", "!", "?"}

Min(a, b) == IF a < b THEN a ELSE b

Max(a, b) == IF a > b THEN a ELSE b

\* s[i:] of Python for 0 <= i
From(s, i) == IF i >= Len(s) THEN <<>> ELSE SubSeq(s, i + 1, Len(s))

\* s[start:] of Python for any integer start
SliceFrom(s, start) ==
    IF start < 0 THEN From(s, Max(Len(s) + start, 0)) ELSE From(s, start)

\* number of leading characters of s that satisfy the class test
RECURSIVE LeadingSpaces(_)
LeadingSpaces(s) ==
    IF s = <<>> \/ ~IsSpace(Head(s)) THEN 0 ELSE 1 + LeadingSpaces(Tail(s))

RECURSIVE TrailingSpaces(_)
TrailingSpaces(s) ==
    IF s = <<>> \/ ~IsSpace(s[Len(s)]) THEN 0
    ELSE 1 + TrailingSpaces(SubSeq(s, 1, Len(s) - 1))

\* str.strip()
strip(s) ==
    IF LeadingSpaces(s) = Len(s) THEN <<>>
    ELSE SubSeq(s, LeadingSpaces(s) + 1, Len(s) - TrailingSpaces(s))

\* sep.join(parts)
RECURSIVE join(_, _)
join(sep, parts) ==
    IF parts = <<>> THEN <<>>
    ELSE IF Len(parts) = 1 THEN parts[1]
    ELSE parts[1] \o sep \o join(sep, Tail(parts))

\* number of leading NL characters
RECURSIVE LeadingNewlines(_)
LeadingNewlines(s) ==
    IF s = <<>> \/ Head(s) # NL THEN 0 ELSE 1 + LeadingNewlines(Tail(s))

\* re.split(r'\n\n+', text): the pieces between maximal runs of two or more
\* newlines; cur is the piece being read
RECURSIVE SplitParagraphBreaks(_, _)
SplitParagraphBreaks(s, cur) ==
    IF s = <<>> THEN <<cur>>
    ELSE IF LeadingNewlines(s) >= 2
         THEN <<cur>> \o SplitParagraphBreaks(From(s, LeadingNewlines(s)), <<>>)
         ELSE SplitParagraphBreaks(Tail(s), Append(cur, Head(s)))

\* re.split(r'(?<=[.!?])\s+', text): the pieces between whitespace runs that
\* directly follow a sentence terminator
RECURSIVE SplitSentenceBreaks(_, _)
SplitSentenceBreaks(s, cur) ==
    IF s = <<>> THEN <<cur>>
    ELSE IF cur # <<>> /\ IsTerminator(cur[Len(cur)]) /\ IsSpace(Head(s))
         THEN <<cur>> \o SplitSentenceBreaks(From(s, LeadingSpaces(s)), <<>>)
         ELSE SplitSentenceBreaks(Tail(s), Append(cur, Head(s)))

\* [p.strip() for p in parts if p.strip()]
RECURSIVE StripNonEmpty(_)
StripNonEmpty(parts) ==
    IF parts = <<>> THEN <<>>
    ELSE IF strip(Head(parts)) = <<>> THEN StripNonEmpty(Tail(parts))
    ELSE <<strip(Head(parts))>> \o StripNonEmpty(Tail(parts))

estimate_tokens(text) == Len(text) \div CharsPerToken

split_by_sentences(text) == StripNonEmpty(SplitSentenceBreaks(text, <<>>))

split_by_paragraphs(text) == StripNonEmpty(SplitParagraphBreaks(text, <<>>))

(***************************************************************************)
(* Python truthiness, as used by `x or default` and `if x:`.               *)
(***************************************************************************)
TruthyInt(o) == o # None /\ o[1] # 0

TruthyStr(o) == o # None /\ o[1] # ""

TruthyDict(o) == o # None /\ DOMAIN o[1] # {}

\* {**d, key: value}
DictWith(d, key, value) == (key :> value) @@ d

(***************************************************************************)
(* DocumentChunker.__init__                                                *)
(***************************************************************************)
DocumentChunker(chunk_size, chunk_overlap, s) ==
    [chunk_size |-> IF TruthyInt(chunk_size) THEN chunk_size[1]
                    ELSE s.chunk_size_tokens,
     chunk_overlap |-> IF TruthyInt(chunk_overlap) THEN chunk_overlap[1]
                       ELSE s.chunk_overlap_tokens]

(***************************************************************************)
(* chunk_text.                                                             *)
(*                                                                         *)
(* The loop state is [chunks, current_chunk, current_tokens,               *)
(* char_position]; `added` is a history field: the atomic units appended   *)
(* to current_chunk since it was last seeded.  A Chunk carries it as       *)
(* origin.units (and origin.section, the markdown section it came from),   *)
(* which no operation of the program reads.                                *)
(***************************************************************************)
Chunk(content, index, start_char, end_char, token_count, metadata, units) ==
    [content |-> content, index |-> index, start_char |-> start_char,
     end_char |-> end_char, token_count |-> token_count,
     metadata |-> metadata, origin |-> [units |-> units, section |-> 0]]

\* as BaseMetadata, but the chunks are built from a fresh empty mapping
BaseMetadata_fresh(metadata, source_id) ==
    [base |-> IF TruthyStr(source_id)
              THEN DictWith(EmptyDict, "source_id", source_id[1])
              ELSE EmptyDict,
     caller |-> metadata]

\* base_metadata = metadata or {}; if source_id: base_metadata["source_id"] = ..
\* base is the mapping the chunks are built from; caller is the state of the
\* caller's mapping object afterwards (the same object when metadata is truthy)
BaseMetadata(metadata, source_id) ==
    LET aliased == TruthyDict(metadata)
        base0 == IF aliased THEN metadata[1] ELSE EmptyDict
        base == IF TruthyStr(source_id)
                THEN DictWith(base0, "source_id", source_id[1]) ELSE base0
    IN [base |-> base,
        caller |-> IF aliased THEN Some(base) ELSE metadata]

\* as OverlapText, but the overlap is taken from the head of the chunk
OverlapText_head(self, joined) ==
    IF self.chunk_overlap # 0
    THEN SubSeq(joined, 1, Min(Len(joined), self.chunk_overlap * CharsPerToken))
    ELSE <<>>

\* chunk_text[-self.chunk_overlap * 4:] if self.chunk_overlap else ""
OverlapText(self, joined) ==
    IF self.chunk_overlap # 0
    THEN SliceFrom(joined, (0 - self.chunk_overlap) * CharsPerToken)
    ELSE <<>>

\* chunks.append(Chunk(...)) and the overlap seeding that follows it
CloseChunk(self, st, sep, base_metadata) ==
    LET joined == join(sep, st.current_chunk)
        overlap_text == OverlapText(self, joined)
    IN [chunks |-> Append(st.chunks,
                     Chunk(joined, Len(st.chunks),
                           st.char_position - Len(joined),
                           st.char_position, st.current_tokens,
                           DictWith(base_metadata, "chunk_index", Len(st.chunks)),
                           st.added)),
        current_chunk |-> IF overlap_text # <<>> THEN <<overlap_text>> ELSE <<>>,
        current_tokens |-> estimate_tokens(overlap_text),
        char_position |-> st.char_position,
        added |-> <<>>]

\* as AddUnit, but the budget test looks at the running count alone
AddUnit_test_running(self, st, unit, sep, gap, base_metadata) ==
    LET unit_tokens == estimate_tokens(unit)
        st1 == IF st.current_tokens > self.chunk_size
                  /\ st.current_chunk # <<>>
               THEN CloseChunk(self, st, sep, base_metadata)
               ELSE st
    IN [st1 EXCEPT !.current_chunk = Append(@, unit),
                   !.current_tokens = @ + unit_tokens,
                   !.char_position = @ + Len(unit) + gap,
                   !.added = Append(@, unit)]

\* as AddUnit, but the chunk is also closed when the unit exactly fills the
\* budget
AddUnit_close_at_limit(self, st, unit, sep, gap, base_metadata) ==
    LET unit_tokens == estimate_tokens(unit)
        st1 == IF st.current_tokens + unit_tokens >= self.chunk_size
                  /\ st.current_chunk # <<>>
               THEN CloseChunk(self, st, sep, base_metadata)
               ELSE st
    IN [st1 EXCEPT !.current_chunk = Append(@, unit),
                   !.current_tokens = @ + unit_tokens,
                   !.char_position = @ + Len(unit) + gap,
                   !.added = Append(@, unit)]

\* as AddUnit, but the running count is not reset to the overlap seed's
\* estimate when a chunk is closed
AddUnit_keep_count(self, st, unit, sep, gap, base_metadata) ==
    LET unit_tokens == estimate_tokens(unit)
        st1 == IF st.current_tokens + unit_tokens > self.chunk_size
                  /\ st.current_chunk # <<>>
               THEN [CloseChunk(self, st, sep, base_metadata)
                       EXCEPT !.current_tokens = st.current_tokens]
               ELSE st
    IN [st1 EXCEPT !.current_chunk = Append(@, unit),
                   !.current_tokens = @ + unit_tokens,
                   !.char_position = @ + Len(unit) + gap,
                   !.added = Append(@, unit)]

\* one iteration of either inner loop body: the budget test, the close, and
\* the append of the unit; sep is the joiner and gap the cursor advance
AddUnit(self, st, unit, sep, gap, base_metadata) ==
    LET unit_tokens == estimate_tokens(unit)
        st1 == IF st.current_tokens + unit_tokens > self.chunk_size
                  /\ st.current_chunk # <<>>
               THEN CloseChunk(self, st, sep, base_metadata)
               ELSE st
    IN [st1 EXCEPT !.current_chunk = Append(@, unit),
                   !.current_tokens = @ + unit_tokens,
                   !.char_position = @ + Len(unit) + gap,
                   !.added = Append(@, unit)]

SentenceSep == <<SP>>

ParagraphSep == <<NL, NL>>

RECURSIVE AddSentences(_, _, _, _)
AddSentences(self, st, sentences, base_metadata) ==
    IF sentences = <<>> THEN st
    ELSE AddSentences(self,
                      AddUnit(self, st, Head(sentences), SentenceSep, 1,
                              base_metadata),
                      Tail(sentences), base_metadata)

\* the body of `for para in paragraphs`
AddParagraph(self, st, para, base_metadata) ==
    IF estimate_tokens(para) > self.chunk_size
    THEN AddSentences(self, st, split_by_sentences(para), base_metadata)
    ELSE AddUnit(self, st, para, ParagraphSep, 2, base_metadata)

RECURSIVE AddParagraphs(_, _, _, _)
AddParagraphs(self, st, paragraphs, base_metadata) ==
    IF paragraphs = <<>> THEN st
    ELSE AddParagraphs(self,
                       AddParagraph(self, st, Head(paragraphs), base_metadata),
                       Tail(paragraphs), base_metadata)

\* as AddRemaining, but the flush is guarded by the running count
AddRemaining_if_tokens(st, base_metadata) ==
    IF st.current_tokens # 0
    THEN Append(st.chunks,
                Chunk(join(ParagraphSep, st.current_chunk), Len(st.chunks),
                      st.char_position
                         - Len(join(ParagraphSep, st.current_chunk)),
                      st.char_position, st.current_tokens,
                      DictWith(base_metadata, "chunk_index", Len(st.chunks)),
                      st.added))
    ELSE st.chunks

\* as AddRemaining, but a pending accumulator is not flushed
AddRemaining_drop(st, base_metadata) == st.chunks

\* "Add remaining content"
AddRemaining(st, base_metadata) ==
    IF st.current_chunk # <<>>
    THEN LET joined == join(ParagraphSep, st.current_chunk)
         IN Append(st.chunks,
                   Chunk(joined, Len(st.chunks),
                         st.char_position - Len(joined),
                         st.char_position, st.current_tokens,
                         DictWith(base_metadata, "chunk_index", Len(st.chunks)),
                         st.added))
    ELSE st.chunks

InitialLoopState ==
    [chunks |-> <<>>, current_chunk |-> <<>>, current_tokens |-> 0,
     char_position |-> 0, added |-> <<>>]

\* the result is [chunks, caller]: the returned list and the caller's
\* metadata object as the call leaves it
chunk_text(self, text, source_id, metadata) ==
    IF text = <<>> \/ strip(text) = <<>>
    THEN [chunks |-> <<>>, caller |-> metadata]
    ELSE LET bm == BaseMetadata(metadata, source_id)
         IN [chunks |-> AddRemaining(
                          AddParagraphs(self, InitialLoopState,
                                        split_by_paragraphs(text), bm.base),
                          bm.base),
             caller |-> bm.caller]

(***************************************************************************)
(* chunk_markdown.                                                         *)
(***************************************************************************)
RECURSIVE LeadingHashes(_)
LeadingHashes(s) ==
    IF s = <<>> \/ Head(s) # HASH THEN 0 ELSE 1 + LeadingHashes(Tail(s))

\* ^#{1,6}\s+ matches at offset p (0-based) of text, under re.MULTILINE
HeadingStartsAt(text, p) ==
    /\ p < Len(text)
    /\ (p = 0 \/ text[p] = NL)
    /\ LET rest == From(text, p)
           h == LeadingHashes(rest)
       IN /\ h >= 1
          /\ h <= MaxHeaderLevel
          /\ h < Len(rest)
          /\ IsSpace(rest[h + 1])

\* re.split(r'(?=^#{1,6}\s+)', text, flags=re.MULTILINE): the text is cut
\* before every offset where a heading starts (also before offset 0, which
\* leaves an empty first piece); p is the offset of the next character
RECURSIVE SplitSections(_, _, _)
SplitSections(text, p, cur) ==
    IF p >= Len(text) THEN <<cur>>
    ELSE IF HeadingStartsAt(text, p)
         THEN <<cur>> \o SplitSections(text, p + 1, <<text[p + 1]>>)
         ELSE SplitSections(text, p + 1, Append(cur, text[p + 1]))

\* the characters of s from index i (1-based) up to the end of its line
RECURSIVE LineFrom(_, _)
LineFrom(s, i) ==
    IF i > Len(s) \/ s[i] = NL THEN <<>> ELSE <<s[i]>> \o LineFrom(s, i + 1)

\* where group 2 of ^(#{1,6})\s+(.+)$ starts in r, the text after the
\* hashes: \s+ takes the longest whitespace run that leaves (.+) a character
\* other than a newline; 0 when there is no such run
HeaderTextStart(r) ==
    LET w == LeadingSpaces(r)
        shorter == {j \in 1..(w - 1) : r[j + 1] # NL}
    IN IF w = 0 THEN 0
       ELSE IF w < Len(r) THEN w + 1
       ELSE IF shorter = {} THEN 0
       ELSE (CHOOSE j \in shorter : \A k \in shorter : k <= j) + 1

\* re.match(header_pattern, section, re.MULTILINE): None, or [level, text]
header_match(section) ==
    LET h == LeadingHashes(section)
        r == From(section, h)
    IN IF h >= 1 /\ h <= MaxHeaderLevel /\ HeaderTextStart(r) > 0
       THEN Some([level |-> h, text |-> LineFrom(r, HeaderTextStart(r))])
       ELSE None

\* as SetHeader, but the deeper levels are not deleted
SetHeader_keep_deeper(current_headers, level, header_text) ==
    [l \in DOMAIN current_headers \cup {level} |->
        IF l = level THEN header_text ELSE current_headers[l]]

\* current_headers[level] = header_text, then delete the deeper levels
SetHeader(current_headers, level, header_text) ==
    [l \in {k \in DOMAIN current_headers \cup {level} : k <= level} |->
        IF l = level THEN header_text ELSE current_headers[l]]

\* as dict, but the live mapping itself is stored
dict_live(current_headers) == [alias |-> TRUE, val |-> current_headers]

\* dict(current_headers): a new mapping object holding the current entries.
\* A mapping stored in metadata is [alias, val]: alias says that it is the
\* live current_headers object itself, and then reads as that object's
\* final content.
dict(current_headers) == [alias |-> FALSE, val |-> current_headers]

\* what the caller reads in a returned chunk's metadata["headers"]
ReadHeaders(obj, live) == IF obj.alias THEN live ELSE obj.val

\* as IsBlankSection, but no section is skipped
IsBlankSection_never(section) == FALSE

\* `if not section.strip(): continue`
IsBlankSection(section) == strip(section) = <<>>

\* as AppendSubChunks, but only start_char is shifted by the section start
RECURSIVE AppendSubChunks_shift_start(_, _, _, _)
AppendSubChunks_shift_start(chunks, sub_chunks, char_position, sec) ==
    IF sub_chunks = <<>> THEN chunks
    ELSE AppendSubChunks_shift_start(
           Append(chunks,
                  [Head(sub_chunks) EXCEPT
                     !.index = Len(chunks),
                     !.start_char = @ + char_position,
                     !.origin.section = sec]),
           Tail(sub_chunks), char_position, sec)

\* as AppendSubChunks, but token_count is also rewritten, to the estimate of
\* the sub-chunk's content
RECURSIVE AppendSubChunks_recount(_, _, _, _)
AppendSubChunks_recount(chunks, sub_chunks, char_position, sec) ==
    IF sub_chunks = <<>> THEN chunks
    ELSE AppendSubChunks_recount(
           Append(chunks,
                  [Head(sub_chunks) EXCEPT
                     !.index = Len(chunks),
                     !.start_char = @ + char_position,
                     !.end_char = @ + char_position,
                     !.token_count = estimate_tokens(Head(sub_chunks).content),
                     !.origin.section = sec]),
           Tail(sub_chunks), char_position, sec)

\* as AppendSubChunks, but the sub-chunks keep the index chunk_text gave them
RECURSIVE AppendSubChunks_keep_index(_, _, _, _)
AppendSubChunks_keep_index(chunks, sub_chunks, char_position, sec) ==
    IF sub_chunks = <<>> THEN chunks
    ELSE AppendSubChunks_keep_index(
           Append(chunks,
                  [Head(sub_chunks) EXCEPT
                     !.start_char = @ + char_position,
                     !.end_char = @ + char_position,
                     !.origin.section = sec]),
           Tail(sub_chunks), char_position, sec)

\* for sub_chunk in sub_chunks: index, start_char and end_char are rewritten
\* and the chunk is appended; sec is the number of the section (history)
RECURSIVE AppendSubChunks(_, _, _, _)
AppendSubChunks(chunks, sub_chunks, char_position, sec) ==
    IF sub_chunks = <<>> THEN chunks
    ELSE AppendSubChunks(
           Append(chunks,
                  [Head(sub_chunks) EXCEPT
                     !.index = Len(chunks),
                     !.start_char = @ + char_position,
                     !.end_char = @ + char_position,
                     !.origin.section = sec]),
           Tail(sub_chunks), char_position, sec)

\* as AddSection, but a section that fits is merged into the chunk before it
AddSection_merge(self, st, section, sec, source_id, base_metadata) ==
    IF IsBlankSection(section) THEN st
    ELSE
      LET m == header_match(section)
          current_headers == IF m # None
                             THEN SetHeader(st.current_headers, m[1].level,
                                            m[1].text)
                             ELSE st.current_headers
          section_tokens == estimate_tokens(section)
          chunks ==
            IF section_tokens <= self.chunk_size
            THEN IF st.chunks # <<>>
                 THEN [st.chunks EXCEPT ![Len(st.chunks)] =
                         [@ EXCEPT !.content = @ \o section,
                                   !.end_char = @ + Len(section),
                                   !.token_count = @ + section_tokens]]
                 ELSE Append(st.chunks,
                        [Chunk(section, Len(st.chunks), st.char_position,
                               st.char_position + Len(section), section_tokens,
                               DictWith(DictWith(base_metadata, "chunk_index",
                                                 Len(st.chunks)),
                                        "headers", dict(current_headers)),
                               <<section>>)
                         EXCEPT !.origin.section = sec])
            ELSE AppendSubChunks(st.chunks,
                   chunk_text(self, section, source_id,
                              Some(DictWith(base_metadata, "headers",
                                            dict(current_headers)))).chunks,
                   st.char_position, sec)
      IN [chunks |-> chunks,
          current_headers |-> current_headers,
          char_position |-> st.char_position + Len(section)]

\* the body of `for section in sections`; sec is the section's number
AddSection(self, st, section, sec, source_id, base_metadata) ==
    IF IsBlankSection(section) THEN st
    ELSE
      LET m == header_match(section)
          current_headers == IF m # None
                             THEN SetHeader(st.current_headers, m[1].level,
                                            m[1].text)
                             ELSE st.current_headers
          section_tokens == estimate_tokens(section)
          chunks ==
            IF section_tokens <= self.chunk_size
            THEN Append(st.chunks,
                   [Chunk(section, Len(st.chunks), st.char_position,
                          st.char_position + Len(section), section_tokens,
                          DictWith(DictWith(base_metadata, "chunk_index",
                                            Len(st.chunks)),
                                   "headers", dict(current_headers)),
                          <<section>>)
                    EXCEPT !.origin.section = sec])
            ELSE AppendSubChunks(st.chunks,
                   chunk_text(self, section, source_id,
                              Some(DictWith(base_metadata, "headers",
                                            dict(current_headers)))).chunks,
                   st.char_position, sec)
      IN [chunks |-> chunks,
          current_headers |-> current_headers,
          char_position |-> st.char_position + Len(section)]

RECURSIVE AddSections(_, _, _, _, _, _)
AddSections(self, st, sections, sec, source_id, base_metadata) ==
    IF sections = <<>> THEN st
    ELSE AddSections(self,
                     AddSection(self, st, Head(sections), sec, source_id,
                                base_metadata),
                     Tail(sections), sec + 1, source_id, base_metadata)

\* the chunk list as the caller sees it once the call has returned
Returned(st) ==
    [i \in 1..Len(st.chunks) |->
        [st.chunks[i] EXCEPT !.metadata.headers =
                                ReadHeaders(@, st.current_headers)]]

chunk_markdown(self, markdown_text, source_id, metadata) ==
    IF markdown_text = <<>> \/ strip(markdown_text) = <<>>
    THEN [chunks |-> <<>>, caller |-> metadata]
    ELSE LET bm == BaseMetadata(metadata, source_id)
             sections == SplitSections(markdown_text, 0, <<>>)
         IN [chunks |-> Returned(
                          AddSections(self,
                                      [chunks |-> <<>>,
                                       current_headers |-> EmptyDict,
                                       char_position |-> 0],
                                      sections, 1, source_id, bm.base)),
             caller |-> bm.caller]

(***************************************************************************)
(* Input domain: texts are concatenations of a few pieces.                 *)
(***************************************************************************)
PlainPieces ==
    { <<"a", "a", "a", "a", NL, NL>>,
      <<"b", "b", NL, NL>>,
      <<"c", "c", "c", ".", SP>>,
      <<"d", ".", SP>>,
      <<"e", "e", "e">>,
      <<SP>> }

MdPieces ==
    { <<HASH, SP, "A", NL, NL>>,
      <<HASH, HASH, SP, "B", NL, NL>>,
      <<HASH, SP, "C", NL, NL>>,
      <<"a", "a", "a", "a", NL, NL>>,
      <<"c", "c", "c", ".", SP>> }

RECURSIVE TextsOf(_, _)
TextsOf(pieces, n) ==
    IF n = 0 THEN {<<>>}
    ELSE TextsOf(pieces, n - 1)
         \cup {t \o p : t \in TextsOf(pieces, n - 1), p \in pieces}

Texts == TextsOf(PlainPieces, MaxPieces) \cup TextsOf(MdPieces, MaxMdPieces)

\* texts used with the full range of source_id and metadata arguments
MetaTexts ==
    { <<"a", "a", "a", "a", NL, NL, "a", "a", "a", "a">>,
      <<HASH, SP, "A", NL, NL, HASH, HASH, SP, "B", NL, NL>>,
      <<HASH, HASH, SP, "B", NL, NL, HASH, SP, "A", NL, NL,
        "a", "a", "a", "a", NL, NL, "a", "a", "a", "a">> }

SourceIds == {None, Some(""), Some("S")}

Metadatas ==
    { None,
      Some(EmptyDict),
      Some("case_id" :> "X"),
      Some("chunk_index" :> 99),
      Some("source_id" :> "T") }

\* texts of the documented examples, chunked besides the generated ones
ExampleTexts ==
    { <<HASH, SP, "A", NL, NL, "a", "a", "a", "a", NL, NL,
        HASH, HASH, SP, "B", NL, NL, "c", "c", "c", ".">>,
      <<HASH, SP, "A", NL, NL, HASH, HASH, SP, "B", NL, NL,
        "a", "a", "a", "a", NL, NL, HASH, SP, "C", NL, NL, "c", "c", "c", ".">>,
      <<"a", "a", "a", "a", NL, NL,
        "e", "e", "e", "e", "e", "e", "e", "e", "e", NL, NL,
        "a", "a", "a", "a">>,
      <<NL, NL, HASH, SP, "A", NL, NL, "a", "a", "a", "a", NL, NL,
        "a", "a", "a", "a">>,
      <<"a", "a", "a", "a", NL, NL, HASH, NL, NL, "a", "a", "a", "a">>,
      <<HASH, "x", NL, NL, "a", "a", "a", "a">>,
      <<HASH, HASH, HASH, HASH, HASH, HASH, HASH, SP, "x", NL, NL,
        "a", "a", "a", "a">> }

\* the argument triples <<text, source_id, metadata>> of a call
Inputs ==
    ((Texts \cup ExampleTexts) \X {None} \X {None})
    \cup (MetaTexts \X SourceIds \X Metadatas)

\* Settings() as loaded from the environment: the defaults, or the defaults
\* with CHUNK_OVERLAP_TOKENS=0
DefaultSettings ==
    [chunk_size_tokens |-> chunk_size_tokens,
     chunk_overlap_tokens |-> chunk_overlap_tokens]

NoOverlapSettings ==
    [chunk_size_tokens |-> chunk_size_tokens, chunk_overlap_tokens |-> 0]

\* an environment and the constructor arguments used in it
Deployments ==
    ({DefaultSettings} \X
       { <<None, None>>, <<Some(1), Some(0)>>, <<Some(1), Some(1)>>,
         <<Some(2), Some(1)>>, <<Some(1), Some(2)>>,
         <<Some(0 - 1), Some(1)>>, <<Some(1), Some(0 - 1)>> })
    \cup ({NoOverlapSettings} \X {<<Some(1), None>>, <<Some(2), Some(0)>>})

(***************************************************************************)
(* The state machine: a chunker is constructed once; the caller then       *)
(* calls it, reads the result, and calls again.                            *)
(***************************************************************************)
NoCall == [op |-> "none", text |-> <<>>, source_id |-> None, metadata |-> None]

NoChunker == [chunk_size |-> 0, chunk_overlap |-> 0]

\* the threads that may call one chunker at the same time
Threads == {1, 2}

\* the local variables of one call in progress: the loop state of chunk_text
\* (st), that of chunk_markdown (mst), and the units or sections still to
\* be read (todo); raced is a history field: another call was in progress
\* when this one took a step
IdleFrame ==
    [status |-> "idle", op |-> "none", text |-> <<>>, todo |-> <<>>,
     sec |-> 0, st |-> InitialLoopState,
     mst |-> [chunks |-> <<>>, current_headers |-> EmptyDict,
              char_position |-> 0],
     ret |-> <<>>, raced |-> FALSE]

NoFrames == [t \in Threads |-> IdleFrame]

(***************************************************************************)
(* ETLPipeline.run_all_connectors (src/packages/etl/pipeline.py).          *)
(***************************************************************************)
\* the keys of self.connectors, in insertion order
Connectors ==
    <<"data.go.kr", "hudoc", "freedom_house", "un_ohchr", "icc", "osce",
      "tjwg_footprints">>

Registered == {Connectors[k] : k \in 1..Len(Connectors)}

\* the local variables of a run_all_connectors call; ran and failed are
\* history: the names passed to run_connector, and for each whether the run
\* failed
NoRun ==
    [pc |-> "idle", targets |-> <<>>, i |-> 0, results |-> EmptyDict,
     errors |-> <<>>, ran |-> <<>>, failed |-> <<>>, ret |-> None]

(***************************************************************************)
(* The global database handle (src/packages/core/utils/db.py).             *)
(***************************************************************************)
\* the asyncio tasks that call get_db()
DbTasks == {1, 2, 3}

\* the module global _db and the _pool of the Database it refers to:
\* assigned says that _db is not None, pool that _db._pool is not None;
\* databases, pools and failures are history: how many Database objects and
\* pools were created, and how many create_pool calls raised
NoDatabase ==
    [assigned |-> FALSE, pool |-> FALSE, databases |-> 0, pools |-> 0,
     failures |-> 0]

NoTasks == [t \in DbTasks |-> "idle"]

\* get_settings() is cached and first called by the constructor
NotLoaded == [chunk_size_tokens |-> 0, chunk_overlap_tokens |-> 0]

Init ==
    /\ settings = NotLoaded
    /\ ctor = <<None, None>>
    /\ chunker = NoChunker
    /\ pc = "new"
    /\ call = NoCall
    /\ caller_metadata = None
    /\ result = <<>>
    /\ ncalls = 0
    /\ frames = NoFrames
    /\ run = NoRun
    /\ db = NoDatabase
    /\ tasks = NoTasks

Construct(env, chunk_size, chunk_overlap) ==
    /\ pc = "new"
    /\ settings' = env
    /\ ctor' = <<chunk_size, chunk_overlap>>
    /\ chunker' = DocumentChunker(chunk_size, chunk_overlap, env)
    /\ pc' = "idle"
    /\ UNCHANGED <<run, db, tasks>>
    /\ UNCHANGED <<call, caller_metadata, result, ncalls, frames>>

\* as CallChunkText, but the call leaves the token count of its last chunk
\* in self.chunk_overlap
CallChunkText_stateful(text, source_id, metadata) ==
    /\ pc = "idle"
    /\ ncalls < MaxCalls
    /\ ncalls' = ncalls + 1
    /\ call' = [op |-> "chunk_text", text |-> text, source_id |-> source_id,
                metadata |-> metadata]
    /\ LET r == chunk_text(chunker, text, source_id, metadata)
       IN /\ result' = r.chunks
          /\ caller_metadata' = r.caller
          /\ chunker' = IF r.chunks = <<>> THEN chunker
                        ELSE [chunker EXCEPT !.chunk_overlap =
                                 r.chunks[Len(r.chunks)].token_count]
    /\ pc' = "returned"
    /\ UNCHANGED <<run, db, tasks>>
    /\ UNCHANGED <<settings, ctor, frames>>

CallChunkText(text, source_id, metadata) ==
    /\ pc = "idle"
    /\ ncalls < MaxCalls
    /\ ncalls' = ncalls + 1
    /\ call' = [op |-> "chunk_text", text |-> text, source_id |-> source_id,
                metadata |-> metadata]
    /\ LET r == chunk_text(chunker, text, source_id, metadata)
       IN /\ result' = r.chunks
          /\ caller_metadata' = r.caller
    /\ pc' = "returned"
    /\ UNCHANGED <<run, db, tasks>>
    /\ UNCHANGED <<settings, ctor, chunker, frames>>

CallChunkMarkdown(text, source_id, metadata) ==
    /\ pc = "idle"
    /\ ncalls < MaxCalls
    /\ ncalls' = ncalls + 1
    /\ call' = [op |-> "chunk_markdown", text |-> text,
                source_id |-> source_id, metadata |-> metadata]
    /\ LET r == chunk_markdown(chunker, text, source_id, metadata)
       IN /\ result' = r.chunks
          /\ caller_metadata' = r.caller
    /\ pc' = "returned"
    /\ UNCHANGED <<run, db, tasks>>
    /\ UNCHANGED <<settings, ctor, chunker, frames>>

\* the caller has taken the chunk list (process_pdf serialises it)
TakeResult ==
    /\ pc = "returned"
    /\ pc' = "idle"
    /\ call' = NoCall
    /\ caller_metadata' = None
    /\ result' = <<>>
    /\ UNCHANGED <<run, db, tasks>>
    /\ UNCHANGED <<settings, ctor, chunker, ncalls, frames>>

Next ==
    \/ \E d \in Deployments : Construct(d[1], d[2][1], d[2][2])
    \/ \E i \in Inputs : CallChunkText(i[1], i[2], i[3])
    \/ \E i \in Inputs : CallChunkMarkdown(i[1], i[2], i[3])
    \/ TakeResult

Spec == Init /\ [][Next]_vars

(***************************************************************************)
(* Vocabulary of the properties.                                           *)
(***************************************************************************)

(***************************************************************************)
(* Calls on one chunker from several threads.  A call is a step per        *)
(* paragraph (chunk_text) or per section (chunk_markdown), and the steps   *)
(* of the calls in progress interleave in any order.                       *)
(***************************************************************************)
\* the calls [op, text] made from threads
ConcCalls ==
    { [op |-> "chunk_text",
       text |-> <<"a", "a", "a", "a", NL, NL, "b", "b", NL, NL,
                  "c", "c", "c", ".", SP, "d", ".">>],
      [op |-> "chunk_text",
       text |-> <<"e", "e", "e", "e", NL, NL, "e", "e", "e", "e">>],
      [op |-> "chunk_markdown",
       text |-> <<HASH, SP, "A", NL, NL, HASH, HASH, SP, "B", NL, NL,
                  "a", "a", "a", "a", NL, NL, "a", "a", "a", "a">>],
      [op |-> "chunk_markdown", text |-> <<SP, NL>>] }

\* as Locals, but the accumulators are those of thread 1, as if they were
\* fields of the instance
Locals_shared(fr, t) == [st |-> fr[1].st, mst |-> fr[1].mst]

\* the accumulators a call running in thread t reads: its own local
\* variables
Locals(fr, t) == [st |-> fr[t].st, mst |-> fr[t].mst]

\* some thread other than t is inside a call
OtherRunning(t) == \E u \in Threads \ {t} : frames[u].status = "running"

\* thread t enters chunk_text or chunk_markdown: the blank guard, or the
\* split and the initialisation of the locals
Begin(t, c) ==
    /\ pc = "idle"
    /\ frames[t].status = "idle"
    /\ frames' = [frames EXCEPT ![t] =
         IF c.text = <<>> \/ strip(c.text) = <<>>
         THEN [IdleFrame EXCEPT !.status = "done", !.op = c.op,
                                !.text = c.text]
         ELSE [IdleFrame EXCEPT
                 !.status = "running", !.op = c.op, !.text = c.text,
                 !.sec = 1,
                 !.todo = IF c.op = "chunk_text"
                          THEN split_by_paragraphs(c.text)
                          ELSE SplitSections(c.text, 0, <<>>)]]
    /\ UNCHANGED <<run, db, tasks>>
    /\ UNCHANGED <<settings, ctor, chunker, pc, call, caller_metadata,
                   result, ncalls>>

\* one iteration of the paragraph loop or of the section loop in thread t
Step(t) ==
    /\ frames[t].status = "running"
    /\ frames[t].todo # <<>>
    /\ LET f == frames[t]
           loc == Locals(frames, t)
           base == BaseMetadata(None, None).base
       IN frames' = [frames EXCEPT ![t] =
            IF f.op = "chunk_text"
            THEN [f EXCEPT !.st = AddParagraph(chunker, loc.st, Head(f.todo),
                                               base),
                           !.todo = Tail(f.todo),
                           !.raced = @ \/ OtherRunning(t)]
            ELSE [f EXCEPT !.mst = AddSection(chunker, loc.mst, Head(f.todo),
                                              f.sec, None, base),
                           !.todo = Tail(f.todo),
                           !.sec = @ + 1,
                           !.raced = @ \/ OtherRunning(t)]]
    /\ UNCHANGED <<run, db, tasks>>
    /\ UNCHANGED <<settings, ctor, chunker, pc, call, caller_metadata,
                   result, ncalls>>

\* the loop of thread t is over: the final flush, and the return
Finish(t) ==
    /\ frames[t].status = "running"
    /\ frames[t].todo = <<>>
    /\ LET f == frames[t]
           loc == Locals(frames, t)
       IN frames' = [frames EXCEPT ![t] =
            [f EXCEPT !.status = "done",
                      !.ret = IF f.op = "chunk_text"
                              THEN AddRemaining(loc.st,
                                                BaseMetadata(None, None).base)
                              ELSE Returned(loc.mst)]]
    /\ UNCHANGED <<run, db, tasks>>
    /\ UNCHANGED <<settings, ctor, chunker, pc, call, caller_metadata,
                   result, ncalls>>

NextConc ==
    \/ \E d \in Deployments : Construct(d[1], d[2][1], d[2][2])
    \/ \E t \in Threads, c \in ConcCalls : Begin(t, c)
    \/ \E t \in Threads : Step(t)
    \/ \E t \in Threads : Finish(t)

SpecConc == Init /\ [][NextConc]_vars

(***************************************************************************)
(* run_all_connectors: one step per iteration of `for name in              *)
(* target_connectors`.                                                     *)
(***************************************************************************)
\* the `connectors` arguments of run_all_connectors
TargetLists ==
    { None, Some(<<>>), Some(<<"hudoc">>),
      Some(<<"icc", "nope", "hudoc">>),
      Some(<<"hudoc", "osce", "hudoc">>) }

\* what a connector's run does: sync() returns a success result, sync()
\* catches an exception and returns an error result, or an exception
\* leaves run_connector (raised on entering or leaving the connector)
Outcomes == {"success", "error", "raise"}

\* await self.run_connector(name): [raised, value], value being the result
\* dict or the text of the exception
run_connector(connector_name, outcome) ==
    IF connector_name \notin Registered
    THEN [raised |-> FALSE,
          value |-> [status |-> "error",
                     error |-> <<"Unknown connector", connector_name>>]]
    ELSE IF outcome = "success"
    THEN [raised |-> FALSE, value |-> [status |-> "success", error |-> <<>>]]
    ELSE IF outcome = "error"
    THEN [raised |-> FALSE,
          value |-> [status |-> "error",
                     error |-> <<"sync failed", connector_name>>]]
    ELSE [raised |-> TRUE, value |-> <<"raised", connector_name>>]

\* target_connectors = connectors or list(self.connectors.keys()), and the
\* two empty accumulators
RunStart(connectors) ==
    /\ run.pc = "idle"
    /\ run' = [NoRun EXCEPT
                 !.pc = "looping",
                 !.targets = IF connectors # None /\ connectors[1] # <<>>
                             THEN connectors[1] ELSE Connectors,
                 !.i = 1]
    /\ UNCHANGED <<chunking, db, tasks>>

\* as RunOne, but an exception that leaves run_connector ends the loop
RunOne_abort(outcome) ==
    /\ run.pc = "looping"
    /\ run.i <= Len(run.targets)
    /\ LET name == run.targets[run.i]
           r == run_connector(name, outcome)
       IN run' =
            IF r.raised
            THEN [run EXCEPT
                    !.errors = Append(@, [connector |-> name,
                                          error |-> r.value]),
                    !.results = DictWith(@, name, [status |-> "error",
                                                   error |-> r.value]),
                    !.ran = Append(@, name),
                    !.failed = Append(@, TRUE),
                    !.i = Len(run.targets) + 1]
            ELSE [run EXCEPT
                    !.results = DictWith(@, name, r.value),
                    !.errors = IF r.value.status = "error"
                               THEN Append(@, [connector |-> name,
                                               error |-> r.value.error])
                               ELSE @,
                    !.ran = Append(@, name),
                    !.failed = Append(@, name \notin Registered
                                         \/ outcome # "success"),
                    !.i = @ + 1]
    /\ UNCHANGED <<chunking, db, tasks>>

\* one iteration of the loop: the try body, or the except clause
RunOne(outcome) ==
    /\ run.pc = "looping"
    /\ run.i <= Len(run.targets)
    /\ LET name == run.targets[run.i]
           r == run_connector(name, outcome)
       IN run' =
            IF r.raised
            THEN [run EXCEPT
                    !.errors = Append(@, [connector |-> name,
                                          error |-> r.value]),
                    !.results = DictWith(@, name, [status |-> "error",
                                                   error |-> r.value]),
                    !.ran = Append(@, name),
                    !.failed = Append(@, TRUE),
                    !.i = @ + 1]
            ELSE [run EXCEPT
                    !.results = DictWith(@, name, r.value),
                    !.errors = IF r.value.status = "error"
                               THEN Append(@, [connector |-> name,
                                               error |-> r.value.error])
                               ELSE @,
                    !.ran = Append(@, name),
                    !.failed = Append(@, name \notin Registered
                                         \/ outcome # "success"),
                    !.i = @ + 1]
    /\ UNCHANGED <<chunking, db, tasks>>

\* the return statement after the loop
RunReturn ==
    /\ run.pc = "looping"
    /\ run.i > Len(run.targets)
    /\ run' = [run EXCEPT
                 !.pc = "returned",
                 !.ret = Some([status |-> IF run.errors = <<>>
                                          THEN "completed"
                                          ELSE "completed_with_errors",
                               connectors_run |-> Len(run.targets),
                               successful |-> Len(run.targets)
                                                - Len(run.errors),
                               errors |-> run.errors,
                               results |-> run.results])]
    /\ UNCHANGED <<chunking, db, tasks>>

\* the caller has taken the returned dict
RunTaken ==
    /\ run.pc = "returned"
    /\ run' = NoRun
    /\ UNCHANGED <<chunking, db, tasks>>

NextPipeline ==
    \/ \E c \in TargetLists : RunStart(c)
    \/ \E o \in Outcomes : RunOne(o)
    \/ RunReturn
    \/ RunTaken

SpecPipeline == Init /\ [][NextPipeline]_vars

(***************************************************************************)
(* get_db() called from several asyncio tasks.  A task runs without        *)
(* interruption up to an await that suspends it; the only one in get_db    *)
(* is `await asyncpg.create_pool(...)` inside Database.connect.            *)
(***************************************************************************)
\* task t calls get_db(): when _db is None a Database is created, assigned
\* to _db, and connect() suspends in create_pool; otherwise _db is returned
GetDbEnter(t) ==
    /\ tasks[t] = "idle"
    /\ IF ~db.assigned
       THEN /\ db' = [db EXCEPT !.assigned = TRUE, !.databases = @ + 1]
            /\ tasks' = [tasks EXCEPT ![t] = "connecting"]
       ELSE /\ db' = db
            /\ tasks' = [tasks EXCEPT ![t] = "returned"]
    /\ UNCHANGED <<chunking, run>>

\* create_pool completes: self._pool is assigned, connect() and get_db()
\* return
PoolCreated(t) ==
    /\ tasks[t] = "connecting"
    /\ db' = [db EXCEPT !.pool = TRUE, !.pools = @ + 1]
    /\ tasks' = [tasks EXCEPT ![t] = "returned"]
    /\ UNCHANGED <<chunking, run>>

\* create_pool raises: the exception leaves get_db(), _db stays assigned
PoolFailed(t) ==
    /\ tasks[t] = "connecting"
    /\ db' = [db EXCEPT !.failures = @ + 1]
    /\ tasks' = [tasks EXCEPT ![t] = "failed"]
    /\ UNCHANGED <<chunking, run>>

\* the caller uses the handle it was given: Database.pool raises
\* RuntimeError('Database not connected...') when _pool is None
UseHandle(t) ==
    /\ tasks[t] = "returned"
    /\ tasks' = [tasks EXCEPT ![t] = IF db.pool THEN "used" ELSE "raised"]
    /\ UNCHANGED <<chunking, run, db>>

\* the task is done with the handle, or with the exception
TaskDone(t) ==
    /\ tasks[t] \in {"used", "raised", "failed"}
    /\ tasks' = [tasks EXCEPT ![t] = "idle"]
    /\ UNCHANGED <<chunking, run, db>>

NextDb ==
    \/ \E t \in DbTasks : GetDbEnter(t)
    \/ \E t \in DbTasks : PoolCreated(t)
    \/ \E t \in DbTasks : PoolFailed(t)
    \/ \E t \in DbTasks : UseHandle(t)
    \/ \E t \in DbTasks : TaskDone(t)

SpecDb == Init /\ [][NextDb]_vars

Returned_text == pc = "returned" /\ call.op = "chunk_text"

Returned_markdown == pc = "returned" /\ call.op = "chunk_markdown"

IsPrefix(p, s) == Len(p) <= Len(s) /\ SubSeq(s, 1, Len(p)) = p

IsSubstring(u, s) ==
    \E i \in 0..(Len(s) - Len(u)) : SubSeq(s, i + 1, i + Len(u)) = u

LastChars(s, n) == SubSeq(s, Len(s) - n + 1, Len(s))

RECURSIVE Flatten(_)
Flatten(seqs) ==
    IF seqs = <<>> THEN <<>> ELSE Head(seqs) \o Flatten(Tail(seqs))

\* the atomic units of a text under a budget: a paragraph that fits the
\* budget, else the sentences of the paragraph
AtomicUnits(text, chunk_size) ==
    LET paragraphs == split_by_paragraphs(text)
    IN Flatten([i \in 1..Len(paragraphs) |->
                  IF estimate_tokens(paragraphs[i]) > chunk_size
                  THEN split_by_sentences(paragraphs[i])
                  ELSE <<paragraphs[i]>>])

\* units[k..] can be assigned, in order, to chunks[j..] that contain them
RECURSIVE InOrderFrom(_, _, _, _)
InOrderFrom(units, k, chunks, j) ==
    IF k > Len(units) THEN TRUE
    ELSE IF j > Len(chunks) THEN FALSE
    ELSE IF IsSubstring(units[k], chunks[j].content)
         THEN InOrderFrom(units, k + 1, chunks, j)
         ELSE InOrderFrom(units, k, chunks, j + 1)

\* C1: the chunks returned by one chunk_text or chunk_markdown call are
\* numbered 0, 1, 2, ... without gaps: chunks[i].index == i
IndexContiguity ==
    pc = "returned" =>
        \A i \in 1..Len(result) : result[i].index = i - 1

\* a markdown call whose oversized section was split into several chunks
\* that follow a chunk of an earlier section
IndexContiguity_witness ==
    /\ Returned_markdown
    /\ \E i, j \in 2..Len(result) :
          /\ i < j
          /\ result[i].origin.section = result[j].origin.section
          /\ result[i - 1].origin.section < result[i].origin.section

\* C2: every returned chunk's token_count is the estimator applied to its
\* stored content: token_count == len(content) // 4
TokenCountIsEstimate ==
    pc = "returned" =>
        \A i \in 1..Len(result) :
            result[i].token_count = estimate_tokens(result[i].content)

\* C3: chunk_text loses no text: every atomic unit of the input (a paragraph
\* within the budget, or a sentence of a paragraph over it) is contained
\* whole in the content of some returned chunk, in input order
NoTextLost ==
    Returned_text =>
        InOrderFrom(AtomicUnits(call.text, chunker.chunk_size), 1, result, 1)

\* a call that returned several chunks for an input one of whose units is
\* by itself over a non-negative budget
NoTextLost_witness ==
    /\ Returned_text
    /\ chunker.chunk_size >= 0
    /\ Len(result) >= 3
    /\ \E k \in 1..Len(AtomicUnits(call.text, chunker.chunk_size)) :
          estimate_tokens(AtomicUnits(call.text, chunker.chunk_size)[k])
             > chunker.chunk_size

\* the chunk was formed from atomic units that each fit the budget
FormedFromFittingUnits(c, chunk_size) ==
    \A k \in 1..Len(c.origin.units) :
        estimate_tokens(c.origin.units[k]) <= chunk_size

\* token_count is over the budget by at most the estimate of the unit that
\* was added last
WithinSoftCap(c, chunk_size) ==
    c.token_count - chunk_size
       <= estimate_tokens(c.origin.units[Len(c.origin.units)])

\* C4 (as stated): every chunk of chunk_text formed only from units within
\* the budget exceeds chunk_size by no more than the estimate of its last unit
BudgetSoftCap_original ==
    Returned_text =>
        \A i \in 1..Len(result) :
            FormedFromFittingUnits(result[i], chunker.chunk_size)
               => WithinSoftCap(result[i], chunker.chunk_size)

\* C4 (amended): when 0 <= chunk_overlap <= chunk_size, every chunk of
\* chunk_text formed only from units within the budget exceeds chunk_size by
\* no more than the estimate of its last unit
BudgetSoftCap ==
    (Returned_text /\ 0 <= chunker.chunk_overlap
                   /\ chunker.chunk_overlap <= chunker.chunk_size) =>
        \A i \in 1..Len(result) :
            FormedFromFittingUnits(result[i], chunker.chunk_size)
               => WithinSoftCap(result[i], chunker.chunk_size)

\* a chunk that starts with an overlap tail, holds units within the budget
\* and is over the budget
BudgetSoftCap_witness ==
    /\ Returned_text
    /\ 0 < chunker.chunk_overlap
    /\ chunker.chunk_overlap <= chunker.chunk_size
    /\ \E i \in 2..Len(result) :
          /\ FormedFromFittingUnits(result[i], chunker.chunk_size)
          /\ result[i].token_count > chunker.chunk_size

\* C5: with chunk_overlap = k > 0, each chunk after the first begins with the
\* last min(4k, len) characters of the chunk before it, and that text is
\* not empty
OverlapPresence ==
    (Returned_text /\ chunker.chunk_overlap > 0) =>
        \A i \in 1..(Len(result) - 1) :
            LET n == Min(CharsPerToken * chunker.chunk_overlap,
                         Len(result[i].content))
            IN /\ n > 0
               /\ IsPrefix(LastChars(result[i].content, n),
                           result[i + 1].content)

\* two consecutive chunks, the first longer than the overlap
OverlapPresence_witness ==
    /\ Returned_text
    /\ chunker.chunk_overlap > 0
    /\ \E i \in 1..(Len(result) - 1) :
          Len(result[i].content) > CharsPerToken * chunker.chunk_overlap

\* the content is exactly the chunk's own atomic units, joined
StartsEmpty(c) ==
    \/ c.content = join(SentenceSep, c.origin.units)
    \/ c.content = join(ParagraphSep, c.origin.units)

\* C6: a chunker constructed with chunk_overlap = 0 applies no overlap: each
\* chunk of chunk_text holds its own atomic units and nothing else
ZeroOverlapDisablesOverlap ==
    (Returned_text /\ ctor[2] = Some(0)) =>
        \A i \in 1..Len(result) : StartsEmpty(result[i])

\* C7: no chunker with a negative chunk_size or chunk_overlap exists
NegativeConfigurationRejected ==
    pc # "new" => chunker.chunk_size >= 0 /\ chunker.chunk_overlap >= 0

\* C8: the mapping passed as metadata is the same after the call as before
CallerMetadataUnchanged ==
    pc = "returned" => caller_metadata = call.metadata

\* the keys of the caller's mapping, as passed
CallerKeys == IF call.metadata = None THEN {} ELSE DOMAIN call.metadata[1]

\* the keys a call writes into every chunk's metadata
AddedKeys ==
    {"chunk_index"}
    \cup (IF TruthyStr(call.source_id) THEN {"source_id"} ELSE {})
    \cup (IF call.op = "chunk_markdown" THEN {"headers"} ELSE {})

\* C9 (as stated): every chunk's metadata has every key of the caller's
\* mapping with its value, source_id == S whenever S is given, chunk_index,
\* and headers for chunk_markdown
MetadataPassthrough_original ==
    pc = "returned" =>
        \A i \in 1..Len(result) :
            LET md == result[i].metadata
            IN /\ \A k \in CallerKeys :
                     k \in DOMAIN md /\ md[k] = call.metadata[1][k]
               /\ call.source_id # None =>
                     "source_id" \in DOMAIN md
                        /\ md["source_id"] = call.source_id[1]
               /\ "chunk_index" \in DOMAIN md
               /\ call.op = "chunk_markdown" => "headers" \in DOMAIN md

\* C9 (amended): every chunk's metadata has every key of the caller's
\* mapping with its value, except the keys the call itself writes
\* (chunk_index; source_id when S is a non-empty string; headers in
\* chunk_markdown); it has source_id == S whenever S is a non-empty string,
\* chunk_index, and headers for chunk_markdown
MetadataPassthrough ==
    pc = "returned" =>
        \A i \in 1..Len(result) :
            LET md == result[i].metadata
            IN /\ \A k \in CallerKeys \ AddedKeys :
                     k \in DOMAIN md /\ md[k] = call.metadata[1][k]
               /\ TruthyStr(call.source_id) =>
                     "source_id" \in DOMAIN md
                        /\ md["source_id"] = call.source_id[1]
               /\ "chunk_index" \in DOMAIN md
               /\ call.op = "chunk_markdown" => "headers" \in DOMAIN md

\* a markdown call with caller metadata and a source_id whose oversized
\* section was split into several chunks
MetadataPassthrough_witness ==
    /\ Returned_markdown
    /\ call.metadata = Some("case_id" :> "X")
    /\ call.source_id = Some("S")
    /\ \E i, j \in 1..Len(result) :
          i < j /\ result[i].origin.section = result[j].origin.section

\* the heading of section j of the call's text: None, or [level, text]
HeadingOf(sections, j) ==
    IF strip(sections[j]) = <<>> THEN None ELSE header_match(sections[j])

\* the last section up to sec whose heading has level l (0 if none)
LastHeadingAt(sections, sec, l) ==
    LET js == {j \in 1..sec : HeadingOf(sections, j) # None
                                /\ HeadingOf(sections, j)[1].level = l}
    IN IF js = {} THEN 0 ELSE CHOOSE j \in js : \A k \in js : k <= j

\* the heading path at section sec: level l is on the path when no heading
\* shallower than l follows the last heading of level l
HeadingPath(sections, sec) ==
    LET onPath(l) ==
          /\ LastHeadingAt(sections, sec, l) > 0
          /\ \A j \in (LastHeadingAt(sections, sec, l) + 1)..sec :
                \/ HeadingOf(sections, j) = None
                \/ HeadingOf(sections, j)[1].level >= l
    IN [l \in {k \in 1..MaxHeaderLevel : onPath(k)} |->
          HeadingOf(sections, LastHeadingAt(sections, sec, l))[1].text]

\* C10: every chunk of chunk_markdown, a whole section or a sub-chunk of an
\* oversized one, carries as metadata.headers the heading path at its
\* section, unaffected by the headings processed after it
HeaderPropagation ==
    Returned_markdown =>
        \A i \in 1..Len(result) :
            result[i].metadata["headers"] =
                HeadingPath(SplitSections(call.text, 0, <<>>),
                            result[i].origin.section)

\* the documented example: content under '# A' carries {1: A}, content
\* under the following '## B' carries {1: A, 2: B}
HeaderPropagation_witness ==
    /\ Returned_markdown
    /\ Len(result) = 2
    /\ IsSubstring(<<"a", "a", "a", "a">>, result[1].content)
    /\ result[1].metadata["headers"] = (1 :> <<"A">>)
    /\ IsSubstring(<<"c", "c", "c", ".">>, result[2].content)
    /\ result[2].metadata["headers"] = (1 :> <<"A">>) @@ (2 :> <<"B">>)

\* the headers in force before the section of chunk i: those of the last
\* chunk of an earlier section, or none
HeadersBefore(chunks, i) ==
    LET earlier == {j \in 1..(i - 1) :
                      chunks[j].origin.section < chunks[i].origin.section}
    IN IF earlier = {} THEN EmptyDict
       ELSE chunks[CHOOSE j \in earlier : \A k \in earlier : k <= j]
               .metadata["headers"]

\* C11: a chunk of a section that starts with a heading of level L has
\* headers[L] equal to the heading's text, no entry deeper than L, and the
\* entries shallower than L exactly as they were before the heading
HeaderScopeClearing ==
    Returned_markdown =>
        \A i \in 1..Len(result) :
            LET h == HeadingOf(SplitSections(call.text, 0, <<>>),
                               result[i].origin.section)
                hd == result[i].metadata["headers"]
                prev == HeadersBefore(result, i)
            IN h # None =>
                 /\ h[1].level \in DOMAIN hd
                 /\ hd[h[1].level] = h[1].text
                 /\ \A l \in DOMAIN hd : l <= h[1].level
                 /\ \A l \in 1..(h[1].level - 1) :
                       /\ l \in DOMAIN hd <=> l \in DOMAIN prev
                       /\ l \in DOMAIN hd => hd[l] = prev[l]

\* the documented example: after '# A', '## B', a new '# C' leaves {1: C}
HeaderScopeClearing_witness ==
    /\ Returned_markdown
    /\ \E i, j \in 1..Len(result) :
          /\ i < j
          /\ 2 \in DOMAIN result[i].metadata["headers"]
          /\ IsSubstring(<<"c", "c", "c", ".">>, result[j].content)
          /\ result[j].metadata["headers"] = (1 :> <<"C">>)

\* C12: every returned chunk has content that is not empty after trimming,
\* and holds at least one atomic unit of its own (not only an overlap tail)
NonEmptyContent ==
    pc = "returned" =>
        \A i \in 1..Len(result) :
            /\ strip(result[i].content) # <<>>
            /\ result[i].origin.units # <<>>

\* a call with overlap on an input that starts with whitespace and yields
\* several chunks
NonEmptyContent_witness ==
    /\ pc = "returned"
    /\ chunker.chunk_overlap > 0
    /\ Len(result) >= 2
    /\ IsSpace(call.text[1])

\* the text is empty or has only whitespace characters
OnlyWhitespace(text) == \A k \in 1..Len(text) : IsSpace(text[k])

\* C13: chunk_text and chunk_markdown return no chunk for an empty or
\* whitespace-only input, and at least one chunk for any other input
EmptyIffBlank ==
    pc = "returned" => (result = <<>> <=> OnlyWhitespace(call.text))

\* a call on a non-empty whitespace-only input has returned nothing
EmptyIffBlank_witness ==
    /\ pc = "returned"
    /\ call.text # <<>>
    /\ OnlyWhitespace(call.text)
    /\ result = <<>>

\* what the call in `call` returns on a chunker freshly constructed with the
\* same arguments and settings
FreshResult ==
    LET fresh == DocumentChunker(ctor[1], ctor[2], settings)
    IN IF call.op = "chunk_text"
       THEN chunk_text(fresh, call.text, call.source_id, call.metadata).chunks
       ELSE chunk_markdown(fresh, call.text, call.source_id,
                           call.metadata).chunks

\* C15: no state is carried between calls: after any sequence of calls
\* chunk_size and chunk_overlap have their construction-time values, and each
\* call returns what it returns on a freshly constructed chunker
NoCarriedState ==
    pc # "new" =>
        /\ chunker = DocumentChunker(ctor[1], ctor[2], settings)
        /\ pc = "returned" => result = FreshResult

\* a second call on the same chunker, with overlap, has returned several
\* chunks
NoCarriedState_witness ==
    /\ pc = "returned"
    /\ ncalls >= 2
    /\ chunker.chunk_overlap > 0
    /\ Len(result) >= 2

\* what the call of a frame returns when it runs alone
AloneResult(f) ==
    IF f.op = "chunk_text"
    THEN chunk_text(chunker, f.text, None, None).chunks
    ELSE chunk_markdown(chunker, f.text, None, None).chunks

Headingless(text) == \A p \in 0..(Len(text) - 1) : ~HeadingStartsAt(text, p)

\* content, index, offsets and token count of each chunk of a list
CoreFields(chunks) ==
    [i \in 1..Len(chunks) |->
        [content |-> chunks[i].content, index |-> chunks[i].index,
         start_char |-> chunks[i].start_char, end_char |-> chunks[i].end_char,
         token_count |-> chunks[i].token_count]]

\* what chunk_text returns for the arguments of the call in `call`
AsPlainText ==
    chunk_text(chunker, call.text, call.source_id, call.metadata).chunks

\* C17 as stated: for every input without a heading line, chunk_markdown
\* returns the contents, indices, offsets and token counts that chunk_text
\* returns for the same input and configuration
HeadinglessLikeText_original ==
    (Returned_markdown /\ Headingless(call.text))
        => CoreFields(result) = CoreFields(AsPlainText)

\* C17 amended: the same, for an input without a heading line that is blank
\* or whose token estimate exceeds chunk_size
HeadinglessLikeText ==
    (/\ Returned_markdown
     /\ Headingless(call.text)
     /\ \/ strip(call.text) = <<>>
        \/ estimate_tokens(call.text) > chunker.chunk_size)
        => CoreFields(result) = CoreFields(AsPlainText)

\* a text without headings, larger than the budget, was chunked as markdown
\* into several chunks
HeadinglessLikeText_witness ==
    /\ Returned_markdown
    /\ Headingless(call.text)
    /\ estimate_tokens(call.text) > chunker.chunk_size
    /\ chunker.chunk_size > 0
    /\ Len(result) >= 2

\* C18: offsets are monotonically non-decreasing: for consecutive chunks i
\* and i+1 of one chunk_text or chunk_markdown call, start_char and end_char
\* of chunk i+1 are at least those of chunk i
OffsetsMonotone ==
    pc = "returned" =>
        \A i \in 1..(Len(result) - 1) :
            /\ result[i + 1].start_char >= result[i].start_char
            /\ result[i + 1].end_char >= result[i].end_char

\* C19: every chunk returned by chunk_text or chunk_markdown has
\* metadata.chunk_index equal to its index field
MetadataIndexMatches ==
    pc = "returned" =>
        \A i \in 1..Len(result) :
            result[i].metadata["chunk_index"] = result[i].index

\* the paragraphs of the text that are split into sentences
OversizedParagraphs(text, chunk_size) ==
    LET paragraphs == split_by_paragraphs(text)
    IN {paragraphs[i] : i \in {j \in 1..Len(paragraphs) :
                          estimate_tokens(paragraphs[j]) > chunk_size}}

\* the units that are sentences of an oversized paragraph
SentenceUnits(text, chunk_size) ==
    UNION {{split_by_sentences(p)[k] : k \in 1..Len(split_by_sentences(p))} :
             p \in OversizedParagraphs(text, chunk_size)}

\* the units that are whole paragraphs
ParagraphUnits(text, chunk_size) ==
    LET paragraphs == split_by_paragraphs(text)
    IN {paragraphs[i] : i \in {j \in 1..Len(paragraphs) :
                          estimate_tokens(paragraphs[j]) <= chunk_size}}

\* u and v are consecutive sentences of one oversized paragraph
ConsecutiveSentences(text, chunk_size, u, v) ==
    \E p \in OversizedParagraphs(text, chunk_size) :
        LET s == split_by_sentences(p)
        IN \E k \in 1..(Len(s) - 1) : s[k] = u /\ s[k + 1] = v

\* the pairs of adjacent units of a chunk; the first element of a chunk
\* after the first may be overlap text and is left out then
UnitPairs(c, chunk_overlap) ==
    {j \in 1..(Len(c.origin.units) - 1) :
        j > 1 \/ c.index = 0 \/ chunk_overlap <= 0}

\* C20: in every chunk returned by chunk_text, the final chunk included, two
\* adjacent units that are sentences of the same oversized paragraph are
\* joined by exactly one space, and two adjacent units that are whole
\* paragraphs by exactly two newlines
UnitSeparators ==
    Returned_text =>
        \A i \in 1..Len(result) :
            \A j \in UnitPairs(result[i], chunker.chunk_overlap) :
                LET u == result[i].origin.units[j]
                    v == result[i].origin.units[j + 1]
                    S == SentenceUnits(call.text, chunker.chunk_size)
                    P == ParagraphUnits(call.text, chunker.chunk_size)
                IN /\ (/\ ConsecutiveSentences(call.text, chunker.chunk_size,
                                               u, v)
                       /\ u \notin P
                       /\ v \notin P)
                        => IsSubstring(u \o <<SP>> \o v, result[i].content)
                   /\ (u \in P \ S /\ v \in P \ S)
                        => IsSubstring(u \o <<NL, NL>> \o v,
                                       result[i].content)

\* the sum of the estimates of a list of units
RECURSIVE SumTokens(_)
SumTokens(units) ==
    IF units = <<>> THEN 0
    ELSE estimate_tokens(Head(units)) + SumTokens(Tail(units))

\* the running token count just before the k-th new unit of chunk c was
\* added: the count at the close less the estimates of the units from k on
RunningBefore(c, k) ==
    c.token_count
      - SumTokens(SubSeq(c.origin.units, k, Len(c.origin.units)))

\* C21: greedy packing in chunk_text: a chunk is closed before a unit iff
\* the accumulator is non-empty and the running count plus the unit's
\* estimate exceeds chunk_size.  Seen from the returned chunks: the units of
\* the text are added in order and none is skipped, every chunk was closed
\* with at least one new unit, every unit added after another one of its
\* chunk still fitted, and the unit that opens the next chunk did not fit
GreedyPacking ==
    Returned_text =>
        /\ Flatten([i \in 1..Len(result) |-> result[i].origin.units])
             = AtomicUnits(call.text, chunker.chunk_size)
        /\ \A i \in 1..Len(result) :
              /\ result[i].origin.units # <<>>
              /\ \A k \in 2..Len(result[i].origin.units) :
                    RunningBefore(result[i], k)
                      + estimate_tokens(result[i].origin.units[k])
                        <= chunker.chunk_size
        /\ \A i \in 1..(Len(result) - 1) :
              result[i].token_count
                + estimate_tokens(result[i + 1].origin.units[1])
                  > chunker.chunk_size

\* a chunk holding two units was closed because a third did not fit, under
\* a positive budget
GreedyPacking_witness ==
    /\ Returned_text
    /\ chunker.chunk_size > 0
    /\ Len(result) >= 2
    /\ Len(result[1].origin.units) >= 2
    /\ estimate_tokens(result[2].origin.units[1]) <= chunker.chunk_size

\* the positions in the result of the chunks made from section j
ChunksOfSection(j) ==
    {i \in 1..Len(result) : result[i].origin.section = j}

\* the contents of the chunks made from section j, in order
RECURSIVE ContentsOfSection(_, _)
ContentsOfSection(j, i) ==
    IF i > Len(result) THEN <<>>
    ELSE IF result[i].origin.section = j
         THEN <<result[i].content>> \o ContentsOfSection(j, i + 1)
         ELSE ContentsOfSection(j, i + 1)

\* the contents chunk_text gives for a text chunked on its own
ContentsAlone(text) ==
    LET alone == chunk_text(chunker, text, None, None).chunks
    IN [i \in 1..Len(alone) |-> alone[i].content]

\* C22: in chunk_markdown every non-blank section within the budget is
\* emitted as exactly one chunk whose content is the section's text and
\* whose token_count is its estimate; no chunk holds text of two sections
\* (the chunks of a section are those of the section chunked on its own),
\* and there are at least as many chunks as non-blank sections
SectionsNotMerged ==
    Returned_markdown =>
        LET sections == SplitSections(call.text, 0, <<>>)
            nonblank == {j \in 1..Len(sections) : strip(sections[j]) # <<>>}
        IN /\ \A i \in 1..Len(result) : result[i].origin.section \in nonblank
           /\ Len(result) >= Cardinality(nonblank)
           /\ \A j \in nonblank :
                 IF estimate_tokens(sections[j]) <= chunker.chunk_size
                 THEN \E i \in 1..Len(result) :
                         /\ ChunksOfSection(j) = {i}
                         /\ result[i].content = sections[j]
                         /\ result[i].token_count
                              = estimate_tokens(sections[j])
                 ELSE /\ ChunksOfSection(j) # {}
                      /\ ContentsOfSection(j, 1) = ContentsAlone(sections[j])

\* a document of at least three sections, with a section within the budget
\* emitted whole and a section over the budget split into sub-chunks
SectionsNotMerged_witness ==
    /\ Returned_markdown
    /\ chunker.chunk_size > 0
    /\ LET sections == SplitSections(call.text, 0, <<>>)
       IN /\ Len(sections) >= 3
          /\ \E j \in 1..Len(sections) :
                /\ strip(sections[j]) # <<>>
                /\ estimate_tokens(sections[j]) <= chunker.chunk_size
                /\ ChunksOfSection(j) # {}
          /\ \E j \in 1..Len(sections) :
                /\ estimate_tokens(sections[j]) > chunker.chunk_size
                /\ Cardinality(ChunksOfSection(j)) >= 2

\* C23: overlap presence in chunk_markdown: with chunk_overlap > 0, for
\* every pair of consecutive chunks of one chunk_markdown call, also across
\* a heading, the head of the later chunk's content duplicates a non-empty
\* tail of the earlier chunk's content
MarkdownOverlapPresence ==
    (Returned_markdown /\ chunker.chunk_overlap > 0) =>
        \A i \in 1..(Len(result) - 1) :
            \E n \in 1..Len(result[i].content) :
                IsPrefix(LastChars(result[i].content, n),
                         result[i + 1].content)

\* the offset in the text at which section j begins
SectionStart(sections, j) == Len(Flatten(SubSeq(sections, 1, j - 1)))

\* the <<start_char, end_char>> pairs of the chunks made from section j, in
\* order, less the shift
RECURSIVE OffsetsOfSection(_, _, _)
OffsetsOfSection(j, i, shift) ==
    IF i > Len(result) THEN <<>>
    ELSE IF result[i].origin.section = j
         THEN <<<<result[i].start_char - shift, result[i].end_char - shift>>>>
              \o OffsetsOfSection(j, i + 1, shift)
         ELSE OffsetsOfSection(j, i + 1, shift)

\* the <<start_char, end_char>> pairs chunk_text gives for a text chunked on
\* its own
OffsetsAlone(text) ==
    LET alone == chunk_text(chunker, text, None, None).chunks
    IN [i \in 1..Len(alone) |-> <<alone[i].start_char, alone[i].end_char>>]

\* C24: markdown offsets are relative to the section's true start: a chunk
\* of a section within the budget has start_char at the offset where the
\* section begins in markdown_text and end_char at start_char plus the
\* section's length, so that markdown_text[start_char:end_char] is its
\* content; the sub-chunks of an oversized section have chunk_text's offsets
\* shifted by that section start
MarkdownOffsets ==
    Returned_markdown =>
        LET sections == SplitSections(call.text, 0, <<>>)
        IN \A i \in 1..Len(result) :
              LET j == result[i].origin.section
                  start == SectionStart(sections, j)
              IN IF estimate_tokens(sections[j]) <= chunker.chunk_size
                 THEN /\ result[i].start_char = start
                      /\ result[i].end_char = start + Len(sections[j])
                      /\ SubSeq(call.text, result[i].start_char + 1,
                                result[i].end_char) = result[i].content
                 ELSE OffsetsOfSection(j, 1, start)
                        = OffsetsAlone(sections[j])

\* a line is a well-formed heading: one to six hashes, whitespace, and text
\* on the same line
WellFormedHeading(line) ==
    LET h == LeadingHashes(line)
        w == LeadingSpaces(From(line, h))
    IN /\ h >= 1
       /\ h <= MaxHeaderLevel
       /\ w >= 1
       /\ h + w < Len(line)

\* the text of a well-formed heading line
HeadingText(line) ==
    From(line, LeadingHashes(line) + LeadingSpaces(From(line,
                                                        LeadingHashes(line))))

\* C25: only well-formed headings affect markdown chunking: a line starts a
\* new section only if it is a well-formed heading, and every entry
\* headers[L] of a returned chunk is the text of a well-formed heading line
\* of level L that starts a section; other markup changes neither
WellFormedHeadingsOnly ==
    Returned_markdown =>
        LET sections == SplitSections(call.text, 0, <<>>)
            headings == {j \in 2..Len(sections) :
                           WellFormedHeading(LineFrom(sections[j], 1))}
        IN /\ headings = 2..Len(sections)
           /\ \A i \in 1..Len(result) :
                 \A l \in DOMAIN result[i].metadata["headers"] :
                    \E j \in headings :
                       /\ LeadingHashes(sections[j]) = l
                       /\ HeadingText(LineFrom(sections[j], 1))
                            = result[i].metadata["headers"][l]

\* the content is the unit, preceded at most by a tail of the content of the
\* chunk before and a separator
UnitAfterTail(content, unit, previous) ==
    \/ content = unit
    \/ \E n \in 1..Len(previous) :
          \/ content = LastChars(previous, n) \o SentenceSep \o unit
          \/ content = LastChars(previous, n) \o ParagraphSep \o unit

\* C26: oversized unit isolation: in chunk_text with chunk_size >= 0, an
\* atomic unit whose own estimate exceeds chunk_size is the only unit of its
\* chunk, and that chunk's content is the unit preceded at most by the
\* overlap tail of the chunk before
OversizedUnitIsolation ==
    (Returned_text /\ chunker.chunk_size >= 0) =>
        \A i \in 1..Len(result) :
            \A k \in 1..Len(result[i].origin.units) :
                estimate_tokens(result[i].origin.units[k]) > chunker.chunk_size
                  => /\ Len(result[i].origin.units) = 1
                     /\ UnitAfterTail(result[i].content,
                                      result[i].origin.units[k],
                                      IF i > 1 THEN result[i - 1].content
                                      ELSE <<>>)

\* an oversized unit between two units that fit, with overlap
OversizedUnitIsolation_witness ==
    /\ Returned_text
    /\ chunker.chunk_size >= 0
    /\ chunker.chunk_overlap > 0
    /\ Len(result) >= 3
    /\ \E i \in 2..(Len(result) - 1) :
          /\ estimate_tokens(result[i].origin.units[1]) > chunker.chunk_size
          /\ estimate_tokens(result[i - 1].origin.units[1])
               <= chunker.chunk_size
          /\ estimate_tokens(result[i + 1].origin.units[1])
               <= chunker.chunk_size

\* C27: every chunk returned by chunk_text or chunk_markdown has
\* end_char - start_char == len(content)
SpanIsContentLength ==
    pc = "returned" =>
        \A i \in 1..Len(result) :
            result[i].end_char - result[i].start_char = Len(result[i].content)

\* a markdown call with overlap returned sub-chunks of an oversized section
\* that does not start the document, the later one seeded with overlap text
SpanIsContentLength_witness ==
    /\ Returned_markdown
    /\ chunker.chunk_overlap > 0
    /\ \E i \in 2..Len(result) :
          /\ result[i].origin.section = result[i - 1].origin.section
          /\ SectionStart(SplitSections(call.text, 0, <<>>),
                          result[i].origin.section) > 0
          /\ Len(result[i].content) > Len(Flatten(result[i].origin.units))

\* C28: offsets stay inside the input: every chunk returned by chunk_text
\* satisfies 0 <= start_char <= end_char <= len(text)
OffsetsInsideInput ==
    Returned_text =>
        \A i \in 1..Len(result) :
            /\ 0 <= result[i].start_char
            /\ result[i].start_char <= result[i].end_char
            /\ result[i].end_char <= Len(call.text)

\* the names of the runs that failed, in order
RECURSIVE FailedNames(_, _)
FailedNames(ran, failed) ==
    IF ran = <<>> THEN <<>>
    ELSE (IF Head(failed) THEN <<Head(ran)>> ELSE <<>>)
         \o FailedNames(Tail(ran), Tail(failed))

\* C29: run_all_connectors runs every target connector once, in list order,
\* whatever fails; on return results has an entry for every target, errors
\* has exactly one entry per failed run, successful is connectors_run less
\* the number of errors, and status is "completed" iff errors is empty
RunAllIsolatesFailures ==
    run.pc = "returned" =>
        LET r == run.ret[1]
        IN /\ run.ran = run.targets
           /\ \A k \in 1..Len(run.targets) :
                 run.targets[k] \in DOMAIN r.results
           /\ [k \in 1..Len(r.errors) |-> r.errors[k].connector]
                = FailedNames(run.ran, run.failed)
           /\ r.connectors_run = Len(run.targets)
           /\ r.successful = r.connectors_run - Len(r.errors)
           /\ (r.status = "completed") <=> (r.errors = <<>>)

\* a run over three targets in which an exception, an unknown name and a
\* success follow each other
RunAllIsolatesFailures_witness ==
    /\ run.pc = "returned"
    /\ run.targets = <<"icc", "nope", "hudoc">>
    /\ run.failed = <<TRUE, TRUE, FALSE>>
    /\ run.ret[1].results["icc"].error = <<"raised", "icc">>
    /\ run.ret[1].successful = 1

\* C30: the lazily initialised global database handle is safe under
\* concurrent first use: as long as no pool creation has failed, every
\* get_db() call that has returned gave a handle whose pool exists, no use
\* of a returned handle raises 'Database not connected', and at most one
\* Database and one pool are created
GetDbSafe ==
    db.failures = 0 =>
        /\ \A t \in DbTasks :
              /\ tasks[t] = "returned" => db.assigned /\ db.pool
              /\ tasks[t] # "raised"
        /\ db.databases <= 1
        /\ db.pools <= 1

====
